---- MODULE Spec2Model ----
(***************************************************************************)
(* Revenue analytics service: the payment table, the three aggregate       *)
(* queries of PaymentCRUD, the time normalizer and the seven revenue       *)
(* endpoints of app/api/v1/endpoints/revenue.py.                           *)
(*                                                                         *)
(* Amounts are Numeric(12, 2) values held as integer cents.  A Python      *)
(* float is an IEEE-754 binary64 value held as its exponent and its 53     *)
(* mantissa bits.  A datetime is the record of its calendar fields, as     *)
(* Python holds it, with the UTC offset of its tzinfo when it has one.     *)
(***************************************************************************)
EXTENDS Integers, Sequences, FiniteSets, TLC

VARIABLES
    payments,   \* the payments table: primary key -> row
    clock,      \* the instant datetime.now(UTC) returns
    req,        \* per connection: the request being served and its response
    norm        \* the time normalizer applied on its own: input, first and second result

vars == <<payments, clock, req, norm>>

\* Optional values: None is Python's None / SQL NULL, Some(x) a present value.
None == <<>>
Some(x) == <<x>>

-----------------------------------------------------------------------------
(* Calendar arithmetic of Python's datetime module *)

\* date.max.toordinal()
MAXORDINAL == 3652059

IsLeap(year) == year % 4 = 0 /\ (year % 100 # 0 \/ year % 400 = 0)

DaysInMonth(year, month) ==
    IF month = 2 THEN (IF IsLeap(year) THEN 29 ELSE 28)
    ELSE IF month \in {4, 6, 9, 11} THEN 30 ELSE 31

\* number of days before January 1st of year
DaysBeforeYear(year) ==
    LET y == year - 1 IN y * 365 + (y \div 4) - (y \div 100) + (y \div 400)

RECURSIVE DaysBeforeMonth(_, _)
DaysBeforeMonth(year, month) ==
    IF month = 1 THEN 0
    ELSE DaysBeforeMonth(year, month - 1) + DaysInMonth(year, month - 1)

\* proleptic Gregorian ordinal, 0001-01-01 is day 1
Ymd2Ord(year, month, day) ==
    DaysBeforeYear(year) + DaysBeforeMonth(year, month) + day

RECURSIVE MonthOfDayInYear(_, _, _)
MonthOfDayInYear(year, month, n) ==
    IF n < DaysInMonth(year, month) THEN <<month, n + 1>>
    ELSE MonthOfDayInYear(year, month + 1, n - DaysInMonth(year, month))

\* the inverse of Ymd2Ord: <<year, month, day>>
Ord2Ymd(ordinal) ==
    LET n0   == ordinal - 1
        n400 == n0 \div 146097
        r400 == n0 % 146097
        n100 == r400 \div 36524
        r100 == r400 % 36524
        n4   == r100 \div 1461
        r4   == r100 % 1461
        n1   == r4 \div 365
        r1   == r4 % 365
        year == n400 * 400 + n100 * 100 + n4 * 4 + n1 + 1
    IN  IF n1 = 4 \/ n100 = 4
        THEN <<year - 1, 12, 31>>
        ELSE LET md == MonthOfDayInYear(year, 1, r1)
             IN  <<year, md[1], md[2]>>

\* a datetime: aware = (tzinfo is not None), utcoffset in minutes east of UTC
DateTime(y, mo, d, h, mi, s, us, aware, off) ==
    [year |-> y, month |-> mo, day |-> d, hour |-> h, minute |-> mi,
     second |-> s, microsecond |-> us, aware |-> aware, utcoffset |-> off]

Naive(y, mo, d, h, mi, s, us) == DateTime(y, mo, d, h, mi, s, us, FALSE, 0)

SecondOfDay(dt) == dt.hour * 3600 + dt.minute * 60 + dt.second

\* datetime - timedelta(days, seconds): the fields of the result, or the
\* OverflowError Python raises when the date leaves MINYEAR..MAXYEAR
MinusTimedelta(dt, days, seconds) ==
    LET s0  == SecondOfDay(dt) - seconds
        ord == Ymd2Ord(dt.year, dt.month, dt.day) - days + (s0 \div 86400)
        s   == s0 % 86400
    IN  IF ord < 1 \/ ord > MAXORDINAL
        THEN [ok |-> FALSE, error |-> "OverflowError"]
        ELSE LET ymd == Ord2Ymd(ord)
             IN  [ok |-> TRUE,
                  value |-> DateTime(ymd[1], ymd[2], ymd[3], s \div 3600,
                                     (s % 3600) \div 60, s % 60, dt.microsecond,
                                     dt.aware, dt.utcoffset)]

\* dt.astimezone(UTC): the same instant with tzinfo UTC
AsTimezoneUTC(dt) ==
    LET r == MinusTimedelta(dt, 0, dt.utcoffset * 60)
    IN  IF r.ok THEN [ok |-> TRUE, value |-> [r.value EXCEPT !.utcoffset = 0]] ELSE r

\* dt.replace(tzinfo=None)
ReplaceTzinfoNone(dt) == [dt EXCEPT !.aware = FALSE, !.utcoffset = 0]

\* A mutant of ensure_timezone_naive: strips the offset without converting.
ensure_timezone_naive_strip(dt) ==
    [ok |-> TRUE, value |-> ReplaceTzinfoNone(dt)]

\* ensure_timezone_naive(dt): the naive UTC datetime, or the exception raised
ensure_timezone_naive(dt) ==
    IF dt.aware
    THEN LET u == AsTimezoneUTC(dt)
         IN  IF u.ok THEN [ok |-> TRUE, value |-> ReplaceTzinfoNone(u.value)] ELSE u
    ELSE [ok |-> TRUE, value |-> dt]

\* datetime comparison: the order of the field tuples
DtKey(dt) == <<dt.year, dt.month, dt.day, dt.hour, dt.minute, dt.second, dt.microsecond>>

RECURSIVE SeqLess(_, _)
SeqLess(a, b) ==
    IF a = <<>> \/ b = <<>> THEN FALSE
    ELSE IF Head(a) # Head(b) THEN Head(a) < Head(b)
    ELSE SeqLess(Tail(a), Tail(b))

DtLT(a, b) == SeqLess(DtKey(a), DtKey(b))
DtLE(a, b) == ~DtLT(b, a)
DtGT(a, b) == DtLT(b, a)
DtGE(a, b) == ~DtLT(a, b)

-----------------------------------------------------------------------------
(* Python float: IEEE-754 binary64, round-to-nearest-even *)

MantissaBits == 53

Zeros(n) == [i \in 1..n |-> 0]

\* 0.0
FloatZero == [exp |-> 0, mant |-> <<>>]

\* the carry into position i when the bit sequences a and b of one length,
\* most significant bit first, are added: the nearest lower position whose two
\* bits agree decides it
CarryInto(a, b, i) ==
    IF \A j \in (i + 1)..Len(a) : a[j] # b[j] THEN 0
    ELSE a[CHOOSE j \in (i + 1)..Len(a) :
                /\ a[j] = b[j]
                /\ \A k \in (i + 1)..(j - 1) : a[k] # b[k]]

\* a + b on bit sequences of one length; a carry out is a leading extra bit
AddBits(a, b) ==
    (IF CarryInto(a, b, 0) = 1 THEN <<1>> ELSE <<>>)
        \o [i \in 1..Len(a) |-> (a[i] + b[i] + CarryInto(a, b, i)) % 2]

\* the float nearest to the value whose binary digits are bits (leading bit 1,
\* of weight 2^e) followed by a non-zero tail iff sticky; ties go to even
RoundBits(bits, sticky, e) ==
    LET L    == Len(bits)
        m    == SubSeq(bits \o Zeros(MantissaBits), 1, MantissaBits)
        rnd  == IF L > MantissaBits THEN bits[MantissaBits + 1] ELSE 0
        st   == sticky \/ \E i \in (MantissaBits + 2)..L : bits[i] = 1
        up   == rnd = 1 /\ (st \/ m[MantissaBits] = 1)
        inc  == AddBits(m, Zeros(MantissaBits - 1) \o <<1>>)
    IN  IF ~up THEN [exp |-> e, mant |-> m]
        ELSE IF Len(inc) > MantissaBits
             THEN [exp |-> e + 1, mant |-> SubSeq(inc, 1, MantissaBits)]
             ELSE [exp |-> e, mant |-> inc]

\* 2^n modulo 100, for n < 64
Pow2Mod100(n) == ((2^(n % 16) % 100) * ((36^(n \div 16)) % 100)) % 100

\* the binary digit of weight 2^w of the decimal cents/100
BitOfCents(cents, w) ==
    IF w >= 0 THEN ((cents \div 100) \div 2^w) % 2
    ELSE (2 * (((cents % 100) * Pow2Mod100(-w - 1)) % 100)) \div 100

\* what is left of cents/100 below the digit of weight 2^(-j), times 100
RemainderBelow(cents, j) == ((cents % 100) * Pow2Mod100(j)) % 100

\* the weight of the leading binary digit of cents/100 (cents > 0)
TopExponent(cents) ==
    IF cents >= 100
    THEN CHOOSE k \in 0..29 : 2^k <= cents \div 100 /\ cents \div 100 < 2^(k + 1)
    ELSE -(CHOOSE j \in 1..7 : /\ BitOfCents(cents, -j) = 1
                               /\ \A i \in 1..(j - 1) : BitOfCents(cents, -i) = 0)

\* float(Decimal) of a non-negative two-digit decimal given in cents
FloatOfCents(cents) ==
    IF cents = 0 THEN FloatZero
    ELSE LET e == TopExponent(cents)
         IN  RoundBits([i \in 1..(MantissaBits + 1) |-> BitOfCents(cents, e - i + 1)],
                       RemainderBelow(cents, MantissaBits - e) # 0, e)

\* a + b on non-negative floats
FloatAdd(a, b) ==
    IF a = FloatZero THEN b
    ELSE IF b = FloatZero THEN a
    ELSE LET hi == IF a.exp >= b.exp THEN a ELSE b
             lo == IF a.exp >= b.exp THEN b ELSE a
             d  == hi.exp - lo.exp
         IN  IF d > MantissaBits + 2 THEN hi
             ELSE LET s == AddBits(hi.mant \o Zeros(d), Zeros(d) \o lo.mant)
                  IN  RoundBits(s, FALSE,
                                IF Len(s) > MantissaBits + d THEN hi.exp + 1 ELSE hi.exp)

\* sum(values) of Python: 0 + v1 + v2 + ..., left to right (0 and 0.0 are
\* one number here)
RECURSIVE PySum(_)
PySum(values) ==
    IF values = <<>> THEN FloatZero
    ELSE FloatAdd(PySum(SubSeq(values, 1, Len(values) - 1)), values[Len(values)])

-----------------------------------------------------------------------------
(* The payments table and PaymentCRUD *)

\* a row of payments: the columns the aggregates read
Payment(amount, status, product_category, payment_date) ==
    [amount |-> amount, status |-> status,
     product_category |-> product_category, payment_date |-> payment_date]

\* a Python dict in insertion order: a sequence of entries with distinct keys
DictKeys(d) == {d[i].key : i \in 1..Len(d)}
DictGet(d, k) == (CHOOSE e \in {d[i] : i \in 1..Len(d)} : e.key = k).value
DictValues(d) == [i \in 1..Len(d) |-> d[i].value]

\* d[k] = v: a key already present keeps its place and takes the new value
DictSet(d, k, v) ==
    IF k \in DictKeys(d)
    THEN [i \in 1..Len(d) |-> IF d[i].key = k THEN [key |-> k, value |-> v] ELSE d[i]]
    ELSE Append(d, [key |-> k, value |-> v])

\* A mutant of Matches: the end bound is exclusive.
MatchesEndExclusive(row, start_date, end_date, status) ==
    /\ row.status = status
    /\ (start_date # None => DtGE(row.payment_date, start_date[1]))
    /\ (end_date # None => DtLT(row.payment_date, end_date[1]))

\* WHERE status = :status [AND payment_date >= :start] [AND payment_date <= :end]
Matches(row, start_date, end_date, status) ==
    /\ row.status = status
    /\ (start_date # None => DtGE(row.payment_date, start_date[1]))
    /\ (end_date # None => DtLE(row.payment_date, end_date[1]))

RECURSIVE SumAmounts(_, _)
SumAmounts(db, ids) ==
    IF ids = {} THEN 0
    ELSE LET i == CHOOSE x \in ids : TRUE
         IN  db[i].amount + SumAmounts(db, ids \ {i})

\* SUM(amount) over the rows ids: NULL over no rows
SqlSum(db, ids) == IF ids = {} THEN None ELSE Some(SumAmounts(db, ids))

\* float(row.total) if row.total else 0.0
TotalAsFloat(total) ==
    IF total # None /\ total[1] # 0 THEN FloatOfCents(total[1]) ELSE FloatZero

\* PaymentCRUD.calculate_revenue: <<total, count>>
calculate_revenue(db, start_date, end_date, status) ==
    LET ids == {i \in DOMAIN db : Matches(db[i], start_date, end_date, status)}
    IN  <<TotalAsFloat(SqlSum(db, ids)), Cardinality(ids)>>

\* the rows of the GROUP BY product_category query, as a set: the database
\* returns them in an order of its choosing
CategoryRows(db, start_date, end_date, status) ==
    LET ids == {i \in DOMAIN db : Matches(db[i], start_date, end_date, status)}
    IN  {[product_category |-> c,
          total |-> SqlSum(db, {i \in ids : db[i].product_category = c}),
          count |-> Cardinality({i \in ids : db[i].product_category = c})]
         : c \in {db[i].product_category : i \in ids}}

\* the sequences that hold each element of S once
Orderings(S) ==
    {q \in [1..Cardinality(S) -> S] : \A i, j \in DOMAIN q : i # j => q[i] # q[j]}

\* row.product_category or "uncategorized"
CategoryLabel(product_category) ==
    IF product_category = None \/ product_category = Some("")
    THEN "uncategorized" ELSE product_category[1]

\* the loop of revenue_by_category over rows[i..]
RECURSIVE FoldCategories(_, _, _)
FoldCategories(rows, i, categories) ==
    IF i > Len(rows) THEN categories
    ELSE FoldCategories(rows, i + 1,
            DictSet(categories, CategoryLabel(rows[i].product_category),
                    [revenue |-> TotalAsFloat(rows[i].total),
                     transaction_count |-> rows[i].count]))

\* PaymentCRUD.revenue_by_category, given the rows in the order the database
\* returned them
revenue_by_category(rows) == FoldCategories(rows, 1, <<>>)

\* A mutant of MonthRowSet: the year is not filtered on.
MonthRowSetAnyYear(db, year, status) ==
    LET ids == {i \in DOMAIN db : db[i].status = status}
    IN  {[month |-> m,
          total |-> SqlSum(db, {i \in ids : db[i].payment_date.month = m}),
          count |-> Cardinality({i \in ids : db[i].payment_date.month = m})]
         : m \in {db[i].payment_date.month : i \in ids}}

\* the rows of the GROUP BY extract(month) query, as a set
MonthRowSet(db, year, status) ==
    LET ids == {i \in DOMAIN db : /\ db[i].status = status
                                  /\ db[i].payment_date.year = year}
    IN  {[month |-> m,
          total |-> SqlSum(db, {i \in ids : db[i].payment_date.month = m}),
          count |-> Cardinality({i \in ids : db[i].payment_date.month = m})]
         : m \in {db[i].payment_date.month : i \in ids}}

\* ORDER BY extract(month)
RECURSIVE OrderByMonth(_)
OrderByMonth(S) ==
    IF S = {} THEN <<>>
    ELSE LET lo == CHOOSE x \in S : \A y \in S : x.month <= y.month
         IN  <<lo>> \o OrderByMonth(S \ {lo})

MonthRows(db, year, status) == OrderByMonth(MonthRowSet(db, year, status))

\* the loop of revenue_by_month over rows[i..]
RECURSIVE FoldMonths(_, _, _)
FoldMonths(rows, i, months) ==
    IF i > Len(rows) THEN months
    ELSE FoldMonths(rows, i + 1,
            DictSet(months, rows[i].month,
                    [month |-> rows[i].month,
                     revenue |-> TotalAsFloat(rows[i].total),
                     transaction_count |-> rows[i].count]))

\* A mutant of revenue_by_month: the months without a row are filled in.
revenue_by_month_filled(db, year, status) ==
    LET months == FoldMonths(MonthRows(db, year, status), 1, <<>>)
    IN  [m \in 1..12 |->
            [key |-> m,
             value |-> IF m \in DictKeys(months) THEN DictGet(months, m)
                       ELSE [month |-> m, revenue |-> FloatZero,
                             transaction_count |-> 0]]]

\* PaymentCRUD.revenue_by_month
revenue_by_month(db, year, status) == FoldMonths(MonthRows(db, year, status), 1, <<>>)

-----------------------------------------------------------------------------
(* The endpoints of revenue.py *)

\* dateutil's parser.parse on the request texts used here: a datetime, aware
\* when the text carries an offset, or the ParserError it raises
date_parser_parse(text) ==
    CASE text = "2024-03-01" -> [ok |-> TRUE, value |-> Naive(2024, 3, 1, 0, 0, 0, 0)]
      [] text = "2024-03-05" -> [ok |-> TRUE, value |-> Naive(2024, 3, 5, 0, 0, 0, 0)]
      [] text = "2024-03-20" -> [ok |-> TRUE, value |-> Naive(2024, 3, 20, 0, 0, 0, 0)]
      [] text = "2024-03-20T17:30:00+05:30"
            -> [ok |-> TRUE, value |-> DateTime(2024, 3, 20, 17, 30, 0, 0, TRUE, 330)]
      [] text = "0001-01-01T00:00:00+05:30"
            -> [ok |-> TRUE, value |-> DateTime(1, 1, 1, 0, 0, 0, 0, TRUE, 330)]
      [] OTHER -> [ok |-> FALSE, error |-> "ParserError"]

\* ensure_timezone_naive(date_parser.parse(text)), or the exception raised
ParseNaive(text) ==
    LET p == date_parser_parse(text)
    IN  IF p.ok THEN ensure_timezone_naive(p.value) ELSE p

\* datetime.isoformat() of a naive datetime: the microseconds are printed
\* only when they are not zero
isoformat(dt) ==
    <<dt.year, dt.month, dt.day, dt.hour, dt.minute, dt.second>>
        \o (IF dt.microsecond # 0 THEN <<dt.microsecond>> ELSE <<>>)

RevenueResponse(total, count, period, start_date, end_date, status) ==
    [status_code |-> 200, total_revenue |-> total, transaction_count |-> count,
     period |-> period, start_date |-> start_date, end_date |-> end_date,
     status_filter |-> status, currency |-> "USD"]

HTTPException(status_code, detail) == [status_code |-> status_code, detail |-> detail]

\* an exception no handler catches: the framework answers 500
ServerError(error) == [status_code |-> 500, detail |-> error]

Idle == [pc |-> "idle", op |-> "", args |-> <<>>, received_at |-> <<>>,
         query |-> <<>>, shape |-> <<>>, queries |-> 0, response |-> None]

\* a request may start on an open connection that serves none
Free(r) == r \in DOMAIN req /\ req[r].pc = "idle"

Received(op, args) == [Idle EXCEPT !.op = op, !.args = args, !.received_at = clock]

\* A mutant of Respond: the response object is shared by all connections.
RespondShared(r, request, response) ==
    req' = [x \in DOMAIN req |->
              IF x = r THEN [request EXCEPT !.pc = "done", !.response = Some(response)]
              ELSE [req[x] EXCEPT !.response = Some(response)]]

\* the handler of connection r returns or raises: the response goes out
Respond(r, request, response) ==
    req' = [req EXCEPT ![r] = [request EXCEPT !.pc = "done", !.response = Some(response)]]

\* the handler of connection r awaits a PaymentCRUD call
Await(r, request, query, shape) ==
    req' = [req EXCEPT ![r] = [request EXCEPT !.pc = "querying", !.query = query,
                                              !.shape = shape, !.queries = @ + 1]]

RevenueQuery(start_date, end_date, status) ==
    [fn |-> "calculate_revenue", start_date |-> start_date, end_date |-> end_date,
     status |-> status]

RevenueShape(period, start_date, end_date, status) ==
    [period |-> period, start_date |-> start_date, end_date |-> end_date,
     status |-> status]

\* GET /total, up to the await
get_total_revenue(r, status) ==
    /\ Free(r)
    /\ Await(r, Received("total_revenue", [status |-> status]),
             RevenueQuery(None, None, status),
             RevenueShape(<<"all_time">>, None, None, status))
    /\ UNCHANGED <<payments, clock, norm>>

\* GET /this-month, up to the await
get_revenue_this_month(r, status) ==
    /\ Free(r)
    /\ LET now == ensure_timezone_naive(clock).value
           start_of_month == Naive(now.year, now.month, 1, 0, 0, 0, 0)
       IN  Await(r, Received("this_month", [status |-> status]),
                 RevenueQuery(Some(start_of_month), Some(now), status),
                 RevenueShape(<<"this_month", now.year, now.month>>,
                              Some(isoformat(start_of_month)), Some(isoformat(now)),
                              status))
    /\ UNCHANGED <<payments, clock, norm>>

\* GET /year-to-date, up to the await
get_revenue_year_to_date(r, status) ==
    /\ Free(r)
    /\ LET now == ensure_timezone_naive(clock).value
           start_of_year == Naive(now.year, 1, 1, 0, 0, 0, 0)
       IN  Await(r, Received("year_to_date", [status |-> status]),
                 RevenueQuery(Some(start_of_year), Some(now), status),
                 RevenueShape(<<"year_to_date", now.year>>,
                              Some(isoformat(start_of_year)), Some(isoformat(now)),
                              status))
    /\ UNCHANGED <<payments, clock, norm>>

\* A mutant of RangeOrderViolated: equal bounds are refused too.
RangeOrderViolatedOrEqual(start_dt, end_dt) == DtGE(start_dt, end_dt)

\* if start_dt > end_dt
RangeOrderViolated(start_dt, end_dt) == DtGT(start_dt, end_dt)

\* GET /custom-range, up to the await or the error
get_revenue_custom_range(r, start_date, end_date, status) ==
    /\ Free(r)
    /\ LET request == Received("custom_range",
                        [start_date |-> start_date, end_date |-> end_date,
                         status |-> status])
           start_dt == ParseNaive(start_date)
           end_dt == ParseNaive(end_date)
       IN  IF ~start_dt.ok
           THEN Respond(r, request, HTTPException(400,
                    <<"Invalid date format. Use ISO format: ", start_dt.error>>))
           ELSE IF ~end_dt.ok
           THEN Respond(r, request, HTTPException(400,
                    <<"Invalid date format. Use ISO format: ", end_dt.error>>))
           ELSE IF RangeOrderViolated(start_dt.value, end_dt.value)
           THEN Respond(r, request, HTTPException(400,
                    <<"start_date must be before end_date">>))
           ELSE Await(r, request,
                      RevenueQuery(Some(start_dt.value), Some(end_dt.value), status),
                      RevenueShape(<<"custom_range">>, Some(isoformat(start_dt.value)),
                                   Some(isoformat(end_dt.value)), status))
    /\ UNCHANGED <<payments, clock, norm>>

\* the largest timedelta(days=...)
MaxTimedeltaDays == 999999999

\* if days < 1
DaysTooFew(days) == days < 1

\* GET /last-n-days, up to the await or the error
get_revenue_last_n_days(r, days, status) ==
    /\ Free(r)
    /\ LET request == Received("last_n_days", [days |-> days, status |-> status])
           now == ensure_timezone_naive(clock).value
           start_date == IF days > MaxTimedeltaDays
                         THEN [ok |-> FALSE, error |-> "OverflowError"]
                         ELSE MinusTimedelta(now, days, 0)
       IN  IF DaysTooFew(days)
           THEN Respond(r, request, HTTPException(400, <<"days must be at least 1">>))
           ELSE IF ~start_date.ok
           THEN Respond(r, request, ServerError(start_date.error))
           ELSE Await(r, request,
                      RevenueQuery(Some(start_date.value), Some(now), status),
                      RevenueShape(<<"last", days, "days">>,
                                   Some(isoformat(start_date.value)),
                                   Some(isoformat(now)), status))
    /\ UNCHANGED <<payments, clock, norm>>

\* the awaited PaymentCRUD.calculate_revenue returns and the handler that
\* called it builds its RevenueResponse
calculate_revenue_returns(r) ==
    /\ r \in DOMAIN req
    /\ req[r].pc = "querying"
    /\ req[r].query.fn = "calculate_revenue"
    /\ LET q == req[r].query
           shape == req[r].shape
           result == calculate_revenue(payments, q.start_date, q.end_date, q.status)
       IN  Respond(r, req[r],
                   RevenueResponse(result[1], result[2], shape.period,
                                   shape.start_date, shape.end_date, shape.status))
    /\ UNCHANGED <<payments, clock, norm>>

\* if start_date: / if end_date: on an optional query string
Truthy(text) == text # None /\ text # Some("")

\* GET /by-category, up to the await or the error
get_revenue_by_category(r, start_date, end_date, status) ==
    /\ Free(r)
    /\ LET request == Received("by_category",
                        [start_date |-> start_date, end_date |-> end_date,
                         status |-> status])
           start_dt == IF Truthy(start_date) THEN ParseNaive(start_date[1])
                       ELSE [ok |-> TRUE]
           end_dt == IF Truthy(end_date) THEN ParseNaive(end_date[1])
                     ELSE [ok |-> TRUE]
       IN  IF ~start_dt.ok
           THEN Respond(r, request, HTTPException(400,
                    <<"Invalid start_date format: ", start_dt.error>>))
           ELSE IF ~end_dt.ok
           THEN Respond(r, request, HTTPException(400,
                    <<"Invalid end_date format: ", end_dt.error>>))
           ELSE Await(r, request,
                      [fn |-> "revenue_by_category",
                       start_date |-> IF Truthy(start_date) THEN Some(start_dt.value) ELSE None,
                       end_date |-> IF Truthy(end_date) THEN Some(end_dt.value) ELSE None,
                       status |-> status],
                      [start_date |-> start_date, end_date |-> end_date,
                       status |-> status])
    /\ UNCHANGED <<payments, clock, norm>>

RECURSIVE SumCounts(_)
SumCounts(values) ==
    IF values = <<>> THEN 0
    ELSE values[1].transaction_count + SumCounts(Tail(values))

Revenues(values) == [i \in 1..Len(values) |-> values[i].revenue]

\* the answer get_revenue_by_category builds from the mapping
CategoryResponse(shape, categories) ==
    [status_code |-> 200,
     categories |-> categories,
     total_revenue |-> PySum(Revenues(DictValues(categories))),
     total_transactions |-> SumCounts(DictValues(categories)),
     status_filter |-> shape.status,
     start_date |-> shape.start_date,
     end_date |-> shape.end_date]

\* the awaited PaymentCRUD.revenue_by_category returns, the rows in an order
\* the database chose, and get_revenue_by_category sums the groups
revenue_by_category_returns(r) ==
    /\ r \in DOMAIN req
    /\ req[r].pc = "querying"
    /\ req[r].query.fn = "revenue_by_category"
    /\ LET q == req[r].query
           shape == req[r].shape
       IN  \E rows \in Orderings(CategoryRows(payments, q.start_date, q.end_date, q.status)) :
             Respond(r, req[r], CategoryResponse(shape, revenue_by_category(rows)))
    /\ UNCHANGED <<payments, clock, norm>>

\* GET /by-month, up to the await
get_revenue_by_month(r, year, status) ==
    /\ Free(r)
    /\ Await(r, Received("by_month", [year |-> year, status |-> status]),
             [fn |-> "revenue_by_month", year |-> year, status |-> status],
             [year |-> year, status |-> status])
    /\ UNCHANGED <<payments, clock, norm>>

\* the answer get_revenue_by_month builds from the mapping
MonthResponse(q, months) ==
    [status_code |-> 200,
     year |-> q.year,
     months |-> months,
     total_revenue |-> PySum(Revenues(DictValues(months))),
     total_transactions |-> SumCounts(DictValues(months)),
     status_filter |-> q.status]

\* the awaited PaymentCRUD.revenue_by_month returns and get_revenue_by_month
\* sums the months
revenue_by_month_returns(r) ==
    /\ r \in DOMAIN req
    /\ req[r].pc = "querying"
    /\ req[r].query.fn = "revenue_by_month"
    /\ LET q == req[r].query
       IN  Respond(r, req[r], MonthResponse(q, revenue_by_month(payments, q.year, q.status)))
    /\ UNCHANGED <<payments, clock, norm>>

\* the response of connection r is sent and the connection takes the next request
Close(r) ==
    /\ r \in DOMAIN req
    /\ req[r].pc = "done"
    /\ req' = [req EXCEPT ![r] = Idle]
    /\ UNCHANGED <<payments, clock, norm>>

\* time passes: datetime.now(UTC) moves on to a later instant
Tick(t) ==
    /\ DtLT(clock, t)
    /\ clock' = t
    /\ UNCHANGED <<payments, req, norm>>

\* ensure_timezone_naive applied to the input
NormalizeOnce ==
    /\ norm.pc = "input"
    /\ norm' = [norm EXCEPT !.pc = "once", !.first = ensure_timezone_naive(norm.input)]
    /\ UNCHANGED <<payments, clock, req>>

\* ensure_timezone_naive applied to its own result
NormalizeTwice ==
    /\ norm.pc = "once"
    /\ norm.first.ok
    /\ norm' = [norm EXCEPT !.pc = "twice",
                            !.second = ensure_timezone_naive(norm.first.value)]
    /\ UNCHANGED <<payments, clock, req>>

-----------------------------------------------------------------------------
(* Bounds and input sets *)

\* rows in the payments table
MaxPayments == 2
\* connections served at once
MaxConnections == 2

Statuses == {"completed", "pending"}
Amounts == {10, 20}

Tables(rows) == UNION {[1..n -> rows] : n \in 0..MaxPayments}

Connections == 1..MaxConnections

NormUnused == [pc |-> "unused"]

ClockStart == DateTime(2024, 3, 20, 12, 0, 0, 0, TRUE, 0)
ClockInstants == {ClockStart, DateTime(2024, 3, 21, 12, 0, 0, 250000, TRUE, 0)}

-----------------------------------------------------------------------------
(* Spec: the five window endpoints over one connection *)

WindowDates ==
    {Naive(2024, 3, 1, 0, 0, 0, 0), Naive(2024, 3, 19, 12, 0, 0, 0),
     Naive(2024, 3, 20, 12, 0, 0, 0), Naive(2024, 3, 20, 12, 0, 0, 1)}

WindowAmounts == {<<10, "completed">>, <<20, "completed">>, <<20, "pending">>}

WindowRows ==
    {Payment(x[1], x[2], None, d) : x \in WindowAmounts, d \in WindowDates}

RangeTexts ==
    {"2024-03-01", "2024-03-20T17:30:00+05:30", "not-a-date",
     "0001-01-01T00:00:00+05:30"}

DaysInputs == {-1, 0, 1, 800000}

Init ==
    /\ payments \in Tables(WindowRows)
    /\ clock = ClockStart
    /\ req = [r \in {1} |-> Idle]
    /\ norm = NormUnused

Next ==
    \/ \E r \in Connections, status \in Statuses : get_total_revenue(r, status)
    \/ \E r \in Connections, status \in Statuses : get_revenue_this_month(r, status)
    \/ \E r \in Connections, status \in Statuses : get_revenue_year_to_date(r, status)
    \/ \E r \in Connections, status \in Statuses,
          start_date \in RangeTexts, end_date \in RangeTexts :
            get_revenue_custom_range(r, start_date, end_date, status)
    \/ \E r \in Connections, status \in Statuses, days \in DaysInputs :
            get_revenue_last_n_days(r, days, status)
    \/ \E r \in Connections : calculate_revenue_returns(r)
    \/ \E r \in Connections : Close(r)
    \/ \E t \in ClockInstants : Tick(t)

Spec == Init /\ [][Next]_vars

-----------------------------------------------------------------------------
(* SpecCategory: the by-category endpoint over one connection *)

CategoryDates == {Naive(2024, 3, 5, 0, 0, 0, 0), Naive(2024, 3, 20, 0, 0, 0, 0)}
Categories == {None, Some(""), Some("uncategorized"), Some("books")}

CategoryRowValues ==
    {Payment(a, s, c, d) :
        a \in Amounts, s \in Statuses, c \in Categories, d \in CategoryDates}

OptionalTexts == {None, Some(""), Some("2024-03-05"), Some("2024-03-20"), Some("not-a-date")}

InitCategory ==
    /\ payments \in Tables(CategoryRowValues)
    /\ clock = ClockStart
    /\ req = [r \in {1} |-> Idle]
    /\ norm = NormUnused

NextCategory ==
    \/ \E r \in Connections, status \in Statuses,
          start_date \in OptionalTexts, end_date \in OptionalTexts :
            get_revenue_by_category(r, start_date, end_date, status)
    \/ \E r \in Connections : revenue_by_category_returns(r)
    \/ \E r \in Connections : Close(r)

SpecCategory == InitCategory /\ [][NextCategory]_vars

-----------------------------------------------------------------------------
(* SpecMonth: the by-month endpoint over one connection *)

MonthDates ==
    {Naive(2024, 1, 1, 0, 0, 0, 0), Naive(2024, 3, 5, 0, 0, 0, 0),
     Naive(2024, 12, 31, 23, 59, 59, 0), Naive(2024, 12, 31, 23, 59, 59, 500000),
     Naive(2025, 1, 1, 0, 0, 0, 0)}

MonthRowValues ==
    {Payment(a, s, None, d) : a \in Amounts, s \in Statuses, d \in MonthDates}

Years == {2023, 2024, 2025}

InitMonth ==
    /\ payments \in Tables(MonthRowValues)
    /\ clock = ClockStart
    /\ req = [r \in {1} |-> Idle]
    /\ norm = NormUnused

NextMonth ==
    \/ \E r \in Connections, year \in Years, status \in Statuses :
          get_revenue_by_month(r, year, status)
    \/ \E r \in Connections : revenue_by_month_returns(r)
    \/ \E r \in Connections : Close(r)

SpecMonth == InitMonth /\ [][NextMonth]_vars

-----------------------------------------------------------------------------
(* SpecConcurrent: all seven endpoints over several connections *)

ConcurrentTables ==
    {<<>>,
     <<Payment(10, "completed", None, Naive(2024, 3, 5, 0, 0, 0, 0)),
       Payment(20, "completed", Some("books"), Naive(2024, 3, 20, 12, 0, 0, 0))>>}

InitConcurrent ==
    /\ payments \in ConcurrentTables
    /\ clock = ClockStart
    /\ req = [r \in 1..MaxConnections |-> Idle]
    /\ norm = NormUnused

NextConcurrent ==
    \/ \E r \in Connections : get_total_revenue(r, "completed")
    \/ \E r \in Connections : get_revenue_this_month(r, "completed")
    \/ \E r \in Connections : get_revenue_year_to_date(r, "completed")
    \/ \E r \in Connections :
          get_revenue_custom_range(r, "2024-03-05", "2024-03-20", "completed")
    \/ \E r \in Connections, days \in {0, 1} :
          get_revenue_last_n_days(r, days, "completed")
    \/ \E r \in Connections :
          get_revenue_by_category(r, Some("2024-03-05"), None, "completed")
    \/ \E r \in Connections : get_revenue_by_month(r, 2024, "completed")
    \/ \E r \in Connections : calculate_revenue_returns(r)
    \/ \E r \in Connections : revenue_by_category_returns(r)
    \/ \E r \in Connections : revenue_by_month_returns(r)
    \/ \E r \in Connections : Close(r)
    \/ \E t \in ClockInstants : Tick(t)

SpecConcurrent == InitConcurrent /\ [][NextConcurrent]_vars

-----------------------------------------------------------------------------
(* SpecNorm: ensure_timezone_naive on its own *)

NormDates == {<<1, 1, 1>>, <<2024, 2, 29>>, <<2024, 3, 1>>, <<2024, 12, 31>>, <<9999, 12, 31>>}
NormTimes == {<<0, 0, 0, 0>>, <<12, 30, 0, 0>>, <<23, 59, 59, 500000>>}
\* UTC offsets in minutes
NormOffsets == {0, 330, -480, 840}

NormInputs ==
    {DateTime(d[1], d[2], d[3], t[1], t[2], t[3], t[4], FALSE, 0) :
        d \in NormDates, t \in NormTimes}
    \cup {DateTime(d[1], d[2], d[3], t[1], t[2], t[3], t[4], TRUE, off) :
            d \in NormDates, t \in NormTimes, off \in NormOffsets}

InitNorm ==
    /\ payments = <<>>
    /\ clock = ClockStart
    /\ req = [r \in {1} |-> Idle]
    /\ norm \in {[pc |-> "input", input |-> t, first |-> None, second |-> None] :
                    t \in NormInputs}

NextNorm == NormalizeOnce \/ NormalizeTwice

SpecNorm == InitNorm /\ [][NextNorm]_vars

-----------------------------------------------------------------------------
(* What the properties speak of *)

\* connection r has answered a request of operation op
Done(r, op) == r \in DOMAIN req /\ req[r].pc = "done" /\ req[r].op = op

\* ... with a result, not an error
Answered(r, op) == Done(r, op) /\ req[r].response[1].status_code = 200

\* the rows of the table a filter selects: the status is equal and the
\* payment date is within the bounds that are given, both inclusive
Selected(start_date, end_date, status) ==
    {i \in DOMAIN payments :
        /\ payments[i].status = status
        /\ (start_date = None \/ ~DtLT(payments[i].payment_date, start_date[1]))
        /\ (end_date = None \/ ~DtLT(end_date[1], payments[i].payment_date))}

\* the amounts of the rows ids among the first n, added up in cents
RECURSIVE Cents(_, _)
Cents(n, ids) ==
    IF n = 0 THEN 0
    ELSE Cents(n - 1, ids) + (IF n \in ids THEN payments[n].amount ELSE 0)

\* a < b on non-negative floats
FloatLT(a, b) ==
    IF b = FloatZero THEN FALSE
    ELSE IF a = FloatZero THEN TRUE
    ELSE a.exp < b.exp \/ (a.exp = b.exp /\ SeqLess(a.mant, b.mant))

\* the float f is less than one cent away from the decimal cents/100
WithinOneCent(f, cents) ==
    /\ FloatLT(f, FloatOfCents(cents + 1))
    /\ (cents > 0 => FloatLT(FloatOfCents(cents - 1), f))

\* the wall-clock fields of an instant given in UTC
WallClock(dt) ==
    Naive(dt.year, dt.month, dt.day, dt.hour, dt.minute, dt.second, dt.microsecond)

-----------------------------------------------------------------------------
(* C10: the time normalizer, under SpecNorm *)

\* the input's time of day in UTC, in seconds counted from the input's
\* own midnight
UtcSeconds(dt) == SecondOfDay(dt) - (IF dt.aware THEN dt.utcoffset * 60 ELSE 0)

\* the day of the input's instant in UTC is a day datetime can hold
Representable(dt) ==
    LET day == Ymd2Ord(dt.year, dt.month, dt.day) + (UtcSeconds(dt) \div 86400)
    IN  1 <= day /\ day <= MAXORDINAL

\* out, read as UTC, is the instant of the aware datetime dt: moving out by
\* dt's offset gives dt's own fields
SameInstant(out, dt) ==
    LET local == SecondOfDay(out) + dt.utcoffset * 60
    IN  /\ Ymd2Ord(dt.year, dt.month, dt.day)
              = Ymd2Ord(out.year, out.month, out.day) + (local \div 86400)
        /\ SecondOfDay(dt) = local % 86400
        /\ dt.microsecond = out.microsecond

\* what C10 says of one input once ensure_timezone_naive has been applied
NormalizedAsClaimed ==
    /\ norm.first.ok
    /\ ~norm.first.value.aware
    /\ (~norm.input.aware => norm.first.value = norm.input)
    /\ (norm.input.aware => SameInstant(norm.first.value, norm.input))
    /\ (norm.pc = "twice" => norm.second = norm.first)

-----------------------------------------------------------------------------
(* C4, C6, C8: the window endpoints, under Spec *)

\* C4: calculate_revenue returns the number of rows whose status is the one
\* given and whose payment date is within the bounds given, both inclusive,
\* and the sum of the amounts of exactly those rows as a float; with no such
\* row it returns (0.0, 0).
C4_FilterAndSum ==
    \A r \in DOMAIN req :
        (req[r].pc = "done" /\ req[r].queries = 1
            /\ req[r].query.fn = "calculate_revenue") =>
            LET q == req[r].query
                ids == Selected(q.start_date, q.end_date, q.status)
                response == req[r].response[1]
            IN  /\ response.status_code = 200
                /\ response.transaction_count = Cardinality(ids)
                /\ response.total_revenue = FloatOfCents(Cents(Len(payments), ids))
                /\ (ids = {} => /\ response.total_revenue = FloatZero
                                /\ response.transaction_count = 0)

\* a window whose end is the payment date of a counted row, over a table
\* that also holds a row of that status outside the window
C4_Witness ==
    \E r \in DOMAIN req :
        /\ req[r].pc = "done" /\ req[r].queries = 1
        /\ req[r].query.fn = "calculate_revenue"
        /\ req[r].query.end_date # None
        /\ req[r].response[1].transaction_count = 1
        /\ \E i, j \in DOMAIN payments :
              /\ payments[i].status = req[r].query.status
              /\ payments[j].status = req[r].query.status
              /\ payments[i].payment_date = req[r].query.end_date[1]
              /\ DtLT(req[r].query.end_date[1], payments[j].payment_date)

\* the response of the range-order check
RangeOrderError == HTTPException(400, <<"start_date must be before end_date">>)

\* C6: custom-range, given two dates that parse, answers 400 "start_date must
\* be before end_date" without a storage query when the normalized start is
\* after the normalized end, whatever the status and the table, and never
\* answers so when start <= end.
C6_RangeOrder ==
    \A r \in DOMAIN req :
        (req[r].op = "custom_range" /\ req[r].pc # "idle") =>
            LET start_dt == ParseNaive(req[r].args.start_date)
                end_dt == ParseNaive(req[r].args.end_date)
                refused == /\ req[r].pc = "done"
                           /\ req[r].response[1] = RangeOrderError
            IN  (start_dt.ok /\ end_dt.ok) =>
                    IF DtLT(end_dt.value, start_dt.value)
                    THEN refused /\ req[r].queries = 0
                    ELSE ~refused

\* a range given with an offset that starts after it ends is refused, over a
\* table that holds rows
C6_Witness ==
    \E r \in DOMAIN req :
        /\ Done(r, "custom_range")
        /\ req[r].args.start_date = "2024-03-20T17:30:00+05:30"
        /\ req[r].args.end_date = "2024-03-01"
        /\ req[r].response[1] = RangeOrderError
        /\ req[r].queries = 0
        /\ payments # <<>>

\* C8: last-n-days answers 400 without a storage query when days < 1, and
\* for every days >= 1 it queries the window that ends at the current UTC
\* instant and starts days * 24 hours before it, and answers with a result.
C8_LastNDays ==
    \A r \in DOMAIN req :
        (req[r].op = "last_n_days" /\ req[r].pc # "idle") =>
            LET days == req[r].args.days
                now == WallClock(req[r].received_at)
            IN  IF days < 1
                THEN /\ req[r].pc = "done"
                     /\ req[r].response[1].status_code = 400
                     /\ req[r].queries = 0
                ELSE /\ req[r].queries = 1
                     /\ req[r].query.end_date = Some(now)
                     /\ LET start == req[r].query.start_date[1]
                        IN  /\ Ymd2Ord(start.year, start.month, start.day) + days
                                  = Ymd2Ord(now.year, now.month, now.day)
                            /\ SecondOfDay(start) = SecondOfDay(now)
                            /\ start.microsecond = now.microsecond
                            /\ ~start.aware
                            /\ req[r].pc = "done" =>
                                  /\ req[r].response[1].status_code = 200
                                  /\ req[r].response[1].start_date = Some(isoformat(start))
                                  /\ req[r].response[1].end_date = Some(isoformat(now))

-----------------------------------------------------------------------------
(* C3, C5: the by-month endpoint, under SpecMonth *)

\* the sums of a by-month answer agree with calculate_revenue over the year
\* window that ends at end_of_year: the counts are equal, and the summed
\* revenue is the decimal total calculate_revenue converts, to the cent
YearWindowAgrees(r, end_of_year) ==
    LET q == req[r].query
        start_date == Some(Naive(q.year, 1, 1, 0, 0, 0, 0))
        result == calculate_revenue(payments, start_date, Some(end_of_year), q.status)
        cents == Cents(Len(payments), Selected(start_date, Some(end_of_year), q.status))
        response == req[r].response[1]
    IN  /\ response.total_transactions = result[2]
        /\ result[1] = FloatOfCents(cents)
        /\ WithinOneCent(response.total_revenue, cents)

\* C3 as stated: the revenue and the counts of revenue_by_month(y, s), summed
\* over the months present, are the total and count of calculate_revenue from
\* Jan 1 y 00:00:00 to Dec 31 y 23:59:59 with status s (the revenue read to
\* the cent).
C3_YearWindowToTheSecond ==
    \A r \in DOMAIN req :
        Answered(r, "by_month") =>
            YearWindowAgrees(r, Naive(req[r].query.year, 12, 31, 23, 59, 59, 0))

\* C3 amended: the same with the window ending at Dec 31 y 23:59:59.999999;
\* the counts are equal and the summed revenue is within float rounding (less
\* than a cent) of the total.
C3_YearWindowToTheMicrosecond ==
    \A r \in DOMAIN req :
        Answered(r, "by_month") =>
            YearWindowAgrees(r, Naive(req[r].query.year, 12, 31, 23, 59, 59, 999999))

\* a by-month answer over two months that counts a payment made half a second
\* before the year ends
C3_Witness ==
    \E r \in DOMAIN req :
        /\ Answered(r, "by_month")
        /\ Len(req[r].response[1].months) = 2
        /\ req[r].response[1].total_transactions = 2
        /\ \E i \in DOMAIN payments :
              /\ payments[i].status = req[r].query.status
              /\ payments[i].payment_date
                    = Naive(req[r].query.year, 12, 31, 23, 59, 59, 500000)

\* C5: every key of the mapping of revenue_by_month is a month number 1..12,
\* and a month is a key exactly when a row of that status has its payment
\* date in that month of that year; no key stands with a zero count.
C5_MonthKeys ==
    \A r \in DOMAIN req :
        Answered(r, "by_month") =>
            LET q == req[r].query
                months == req[r].response[1].months
            IN  /\ DictKeys(months) \subseteq 1..12
                /\ \A m \in 1..12 :
                      m \in DictKeys(months) <=>
                          \E i \in DOMAIN payments :
                              /\ payments[i].status = q.status
                              /\ payments[i].payment_date.year = q.year
                              /\ payments[i].payment_date.month = m
                /\ \A i \in 1..Len(months) :
                      /\ months[i].value.transaction_count >= 1
                      /\ months[i].value.month = months[i].key

\* a by-month answer with December alone, over a table that also holds a
\* row of that status in January of the next year
C5_Witness ==
    \E r \in DOMAIN req :
        /\ Answered(r, "by_month")
        /\ DictKeys(req[r].response[1].months) = {12}
        /\ \E i \in DOMAIN payments :
              /\ payments[i].status = req[r].query.status
              /\ payments[i].payment_date.year = req[r].query.year + 1
              /\ payments[i].payment_date.month = 1

-----------------------------------------------------------------------------
(* C1, C2, C7: the by-category endpoint, under SpecCategory *)

\* C1: the groups of revenue_by_category partition the rows the filter
\* selects, whatever the categories (null, empty, "uncategorized" or other):
\* the counts of the groups add up to the count of calculate_revenue for the
\* same filter, and their revenues to its total (read to the cent).
C1_GroupsPartition ==
    \A r \in DOMAIN req :
        Answered(r, "by_category") =>
            LET q == req[r].query
                result == calculate_revenue(payments, q.start_date, q.end_date, q.status)
                cents == Cents(Len(payments), Selected(q.start_date, q.end_date, q.status))
                response == req[r].response[1]
            IN  /\ response.total_transactions = result[2]
                /\ result[1] = FloatOfCents(cents)
                /\ WithinOneCent(response.total_revenue, cents)

\* C2: no key of the mapping is null and every selected row without a
\* category is counted under "uncategorized"; where selected rows of the
\* category "uncategorized" exist too, the entry holds the count and the
\* revenue of both kinds of rows together (stated for selections without an
\* empty-string category, which the claim does not speak of).
C2_NullCountsAsUncategorized ==
    \A r \in DOMAIN req :
        Answered(r, "by_category") =>
            LET q == req[r].query
                ids == Selected(q.start_date, q.end_date, q.status)
                absent == {i \in ids : payments[i].product_category = None}
                literal == {i \in ids : payments[i].product_category = Some("uncategorized")}
                empty == {i \in ids : payments[i].product_category = Some("")}
                categories == req[r].response[1].categories
            IN  /\ \A i \in 1..Len(categories) : categories[i].key \in STRING
                /\ absent # {} => "uncategorized" \in DictKeys(categories)
                /\ (absent # {} /\ empty = {}) =>
                      LET entry == DictGet(categories, "uncategorized")
                      IN  /\ entry.transaction_count = Cardinality(absent \cup literal)
                          /\ WithinOneCent(entry.revenue,
                                           Cents(Len(payments), absent \cup literal))

\* C7: by-category, given a start and an end that both parse, the normalized
\* start after the normalized end, fails with the range-order client error
\* and returns no result.
C7_CategoryRangeOrder ==
    \A r \in DOMAIN req :
        (Done(r, "by_category")
            /\ req[r].args.start_date # None /\ req[r].args.end_date # None) =>
            LET start_dt == ParseNaive(req[r].args.start_date[1])
                end_dt == ParseNaive(req[r].args.end_date[1])
            IN  (start_dt.ok /\ end_dt.ok /\ DtLT(end_dt.value, start_dt.value)) =>
                    /\ req[r].response[1].status_code = 400
                    /\ req[r].queries = 0

-----------------------------------------------------------------------------
(* C9: the seven endpoints on several connections, under SpecConcurrent *)

\* the answers the query of a request yields over the table when nothing
\* else runs: one answer, or one for each order the groups may come in
ResultsAlone(request) ==
    LET q == request.query
        shape == request.shape
    IN  CASE q.fn = "calculate_revenue" ->
               LET result == calculate_revenue(payments, q.start_date, q.end_date, q.status)
               IN  {RevenueResponse(result[1], result[2], shape.period,
                                    shape.start_date, shape.end_date, shape.status)}
          [] q.fn = "revenue_by_category" ->
               {CategoryResponse(shape, revenue_by_category(rows)) :
                   rows \in Orderings(CategoryRows(payments, q.start_date, q.end_date,
                                                   q.status))}
          [] q.fn = "revenue_by_month" ->
               {MonthResponse(q, revenue_by_month(payments, q.year, q.status))}

\* a step of an operation leaves the table and the clock alone and changes
\* the request of one connection only
StepIsLocal ==
    /\ payments' = payments
    /\ clock' # clock => req' = req
    /\ \A r, x \in DOMAIN req : (r # x /\ req'[r] # req[r]) => req'[x] = req[x]

\* C9: no step of any of the seven operations, successful or failing,
\* changes the payments table or any state shared between requests, and
\* however the operations interleave, each one answers what its query yields
\* over the table on its own.
C9_ReadOnlyAndIndependent ==
    /\ [][StepIsLocal]_vars
    /\ [](\A r \in DOMAIN req :
            (req[r].pc = "done" /\ req[r].queries = 1) =>
                req[r].response[1] \in ResultsAlone(req[r]))

\* two requests received at different instants are in progress at once: one
\* has its answer while the other still awaits its query
C9_Witness ==
    \E r, x \in DOMAIN req :
        /\ r # x
        /\ Answered(r, "by_category")
        /\ Len(req[r].response[1].categories) = 2
        /\ req[x].pc = "querying"
        /\ req[x].op = "last_n_days"
        /\ req[x].received_at # req[r].received_at

====
